---- MODULE Spec2Model ----
(***************************************************************************)
(* Documentation tooling of App-Store-Connect-CLI:                         *)
(*   scripts/check-commands-docs.py    (Docs Consistency Checker)          *)
(*   scripts/generate-command-docs.py  (Docs Generator)                    *)
(*   scripts/update-wall-of-apps.py    (Wall-of-Apps Renderer)             *)
(*                                                                         *)
(* A Python str is a sequence of one-character strings; a file is a record *)
(* [exists, data] whose data is the stored character sequence.             *)
(***************************************************************************)
EXTENDS Integers, Sequences, FiniteSets, TLC

VARIABLES
    \* check-commands-docs.py: parse_live_commands
    live_text, commands, live_pc,
    \* check-commands-docs.py: extract_top_level_command
    ex_line, ex_result, ex_pc,
    \* check-commands-docs.py: main
    help_text, doc_file, readme_file, live_commands, doc_commands,
    missing, extra, readme_errors, problems, exit_code, main_pc,
    \* generate-command-docs.py: parse_help
    parse_text, help_lines, line_no, usage, flags, groups,
    in_flags, current_group_index, parse_pc,
    \* generate-command-docs.py: main
    linesep, output_file, gen_help, gen_check, gen_exit, gen_pc,
    \* update-wall-of-apps.py: normalize_entry
    entry_in, entry_out, entry_pc,
    \* update-wall-of-apps.py: main
    source_file, generated_file, wall_readme, entries, snippet,
    wall_pc, wall_outcome, wall_message, wall_runs

liveVars == <<live_text, commands, live_pc>>

extractVars == <<ex_line, ex_result, ex_pc>>

mainVars == <<help_text, doc_file, readme_file, live_commands, doc_commands,
              missing, extra, readme_errors, problems, exit_code, main_pc>>

checkerVars == <<liveVars, extractVars, mainVars>>

parseVars == <<parse_text, help_lines, line_no, usage, flags, groups,
               in_flags, current_group_index, parse_pc>>

genVars == <<output_file, gen_help, gen_check, gen_exit, gen_pc>>

entryVars == <<entry_in, entry_out, entry_pc>>

wallVars == <<source_file, generated_file, wall_readme, entries, snippet,
              wall_pc, wall_outcome, wall_message, wall_runs>>

vars == <<checkerVars, parseVars, genVars, linesep, entryVars, wallVars>>

(***************************************************************************)
(* Python str primitives                                                   *)
(***************************************************************************)

\* A string literal as a Python str (sequence of characters).
Chars(s) == [k \in 1..Len(s) |-> SubSeq(s, k, k)]

Range(f) == {f[k] : k \in DOMAIN f}

\* The grave accent character (U+0060), which no string literal here can hold.
Backtick == "GRAVE"

\* A file that exists and stores data; a path at which no file exists.
File(data) == [exists |-> TRUE, data |-> data]

NoFile == [exists |-> FALSE, data |-> <<>>]

\* The value None.
None == <<"<None>">>

\* Characters that str.strip(), str.split() and the regex class \s treat as
\* whitespace (those of them that occur in the modelled inputs).
Whitespace == {" ", "\t", "\n", "\r", "\f"}

IsSpace(c) == c \in Whitespace

\* The regex class [a-z0-9-].
CommandChars == Range(Chars("abcdefghijklmnopqrstuvwxyz0123456789-"))

\* str.startswith(prefix)
StartsWith(s, prefix) ==
    /\ Len(s) >= Len(prefix)
    /\ SubSeq(s, 1, Len(prefix)) = prefix

\* str.strip(): drop leading and trailing whitespace.
Strip(s) ==
    LET keep == {k \in 1..Len(s) : ~IsSpace(s[k])}
    IN  IF keep = {} THEN <<>>
        ELSE LET lo == CHOOSE k \in keep : \A m \in keep : k <= m
                 hi == CHOOSE k \in keep : \A m \in keep : k >= m
             IN  SubSeq(s, lo, hi)

\* str.split(): the maximal runs of non-whitespace characters, in order.
RECURSIVE Split(_)
Split(s) ==
    IF s = <<>> THEN <<>>
    ELSE IF IsSpace(s[1]) THEN Split(Tail(s))
    ELSE LET stops == {k \in 1..Len(s) : IsSpace(s[k])}
             n == IF stops = {} THEN Len(s)
                  ELSE (CHOOSE k \in stops : \A m \in stops : k <= m) - 1
         IN  <<SubSeq(s, 1, n)>> \o Split(SubSeq(s, n + 1, Len(s)))

\* The line boundaries str.splitlines() recognises.
LineBreaks == {"\n", "\r", "\f"}

\* str.splitlines(): split at every line boundary ("\r\n" is one boundary),
\* without the boundaries; no empty last line after a final boundary.
RECURSIVE SplitLines(_)
SplitLines(s) ==
    IF s = <<>> THEN <<>>
    ELSE LET stops == {k \in 1..Len(s) : s[k] \in LineBreaks}
         IN  IF stops = {} THEN <<s>>
             ELSE LET n == CHOOSE k \in stops : \A m \in stops : k <= m
                      w == IF s[n] = "\r" /\ n < Len(s) /\ s[n + 1] = "\n"
                           THEN 2 ELSE 1
                  IN  <<SubSeq(s, 1, n - 1)>>
                          \o SplitLines(SubSeq(s, n + w, Len(s)))

\* The concatenation of a sequence of strings.
RECURSIVE Concat(_)
Concat(ss) == IF ss = <<>> THEN <<>> ELSE Head(ss) \o Concat(Tail(ss))

\* sep.join(ss)
RECURSIVE Join(_, _)
Join(sep, ss) ==
    IF ss = <<>> THEN <<>>
    ELSE IF Len(ss) = 1 THEN ss[1]
    ELSE ss[1] \o sep \o Join(sep, Tail(ss))

\* All sequences over S of length at most n.
RECURSIVE SeqsUpTo(_, _)
SeqsUpTo(S, n) ==
    IF n = 0 THEN {<<>>}
    ELSE LET shorter == SeqsUpTo(S, n - 1)
         IN  shorter \cup {Append(q, x) : q \in {r \in shorter : Len(r) = n - 1}, x \in S}

\* The length of the longest prefix of s[from..] whose characters are in class.
RunLength(s, from, class) ==
    LET stops == {k \in from..Len(s) : s[k] \notin class}
    IN  IF stops = {} THEN Len(s) - from + 1
        ELSE (CHOOSE k \in stops : \A m \in stops : k <= m) - from

(***************************************************************************)
(* check-commands-docs.py                                                  *)
(***************************************************************************)

ROOT_FLAGS_WITH_VALUE == {Chars("--profile"), Chars("--report"), Chars("--report-file")}

\* re.match(r"^\s{2}([a-z0-9-]+):\s", line): group(1), or None.
LiveCommandMatch(line) ==
    IF Len(line) >= 2 /\ IsSpace(line[1]) /\ IsSpace(line[2])
    THEN LET n == RunLength(line, 3, CommandChars)
         IN  IF /\ n >= 1
                /\ Len(line) >= n + 4
                /\ line[n + 3] = ":"
                /\ IsSpace(line[n + 4])
             THEN SubSeq(line, 3, n + 2)
             ELSE None
    ELSE None

\* parse_live_commands as one function of the help text.
parse_live_commands(text) ==
    {LiveCommandMatch(l) : l \in Range(SplitLines(text))} \ {None}

\* The regex r"^- B([a-z0-9-]+)B" (B the grave accent) of
\* parse_documented_commands on one line: group(1), or None.
DocCommandMatch(line) ==
    IF StartsWith(line, Chars("- ") \o <<Backtick>>)
    THEN LET n == RunLength(line, 4, CommandChars)
         IN  IF n >= 1 /\ Len(line) >= n + 4 /\ line[n + 4] = Backtick
             THEN SubSeq(line, 4, n + 3)
             ELSE None
    ELSE None

\* The lines at whose start the MULTILINE anchor ^ matches: text split at "\n".
RECURSIVE SplitNewline(_)
SplitNewline(s) ==
    LET stops == {k \in 1..Len(s) : s[k] = "\n"}
    IN  IF stops = {} THEN <<s>>
        ELSE LET n == CHOOSE k \in stops : \A m \in stops : k <= m
             IN  <<SubSeq(s, 1, n - 1)>> \o SplitNewline(SubSeq(s, n + 1, Len(s)))

\* The pieces of data between its line endings "\r\n", "\r" and "\n".
RECURSIVE SplitUniversal(_)
SplitUniversal(data) ==
    LET stops == {k \in 1..Len(data) : data[k] \in {"\r", "\n"}}
    IN  IF stops = {} THEN <<data>>
        ELSE LET n == CHOOSE k \in stops : \A m \in stops : k <= m
                 w == IF data[n] = "\r" /\ n < Len(data) /\ data[n + 1] = "\n"
                      THEN 2 ELSE 1
             IN  <<SubSeq(data, 1, n - 1)>>
                     \o SplitUniversal(SubSeq(data, n + w, Len(data)))

\* Path.read_text() of an existing file: text mode with universal newlines,
\* "\r\n" and a lone "\r" are read as "\n".
ReadText(file) == Join(Chars("\n"), SplitUniversal(file.data))

parse_documented_commands(file) ==
    LET text == ReadText(file)
        found == {DocCommandMatch(l) : l \in Range(SplitNewline(text))} \ {None}
    IN  {entry \in found : ~StartsWith(entry, Chars("--"))}

\* Mutant: a value-taking root flag does not consume its operand.
RECURSIVE SkipRootFlags_NoOperand(_, _)
SkipRootFlags_NoOperand(tokens, i) ==
    IF i <= Len(tokens) /\ StartsWith(tokens[i], Chars("--"))
    THEN SkipRootFlags_NoOperand(tokens, i + 1)
    ELSE i

\* The index the while loop of extract_top_level_command ends with.
RECURSIVE SkipRootFlags(_, _)
SkipRootFlags(tokens, i) ==
    IF i <= Len(tokens) /\ StartsWith(tokens[i], Chars("--"))
    THEN LET token == tokens[i]
         IN  IF "=" \in Range(token) THEN SkipRootFlags(tokens, i + 1)
             ELSE IF token \in ROOT_FLAGS_WITH_VALUE /\ i + 1 <= Len(tokens)
                  THEN SkipRootFlags(tokens, i + 2)
                  ELSE SkipRootFlags(tokens, i + 1)
    ELSE i

\* Token indices are 1-based here: tokens[1] is Python's tokens[0].
extract_top_level_command(line) ==
    LET tokens == Split(Strip(line))
    IN  IF Len(tokens) < 2 \/ tokens[1] # Chars("asc") THEN None
        ELSE LET i == SkipRootFlags(tokens, 2)
             IN  IF i > Len(tokens) THEN None
                 ELSE IF StartsWith(tokens[i], Chars("<")) THEN None
                 ELSE tokens[i]

\* str(n) for a natural number.
RECURSIVE Str(_)
Str(n) ==
    LET digit == <<SubSeq("0123456789", (n % 10) + 1, (n % 10) + 1)>>
    IN  IF n < 10 THEN digit ELSE Str(n \div 10) \o digit

\* The errors validate_readme_examples appends for lines[from..].
RECURSIVE ReadmeErrorsFrom(_, _, _)
ReadmeErrorsFrom(lines, from, live) ==
    IF from > Len(lines) THEN <<>>
    ELSE LET stripped == Strip(lines[from])
             command == extract_top_level_command(stripped)
             rest == ReadmeErrorsFrom(lines, from + 1, live)
         IN  IF ~StartsWith(stripped, Chars("asc ")) THEN rest
             ELSE IF command = None THEN rest
             ELSE IF command \notin live
                  THEN <<Chars("README.md:") \o Str(from)
                           \o Chars(": unknown top-level command '") \o command
                           \o Chars("' in '") \o stripped \o Chars("'")>> \o rest
                  ELSE rest

validate_readme_examples(file, live) ==
    ReadmeErrorsFrom(SplitLines(ReadText(file)), 1, live)

\* The printable ASCII characters in code-point order, from U+0020.
Printable ==
    Chars(" !\"#$%&'()*+,-./0123456789:;<=>?@ABCDEFGHIJKLMNOPQRSTUVWXYZ[\\]^_")
        \o <<Backtick>> \o Chars("abcdefghijklmnopqrstuvwxyz{|}~")

\* ord(c)
Ord(c) ==
    IF c = "\t" THEN 9
    ELSE IF c = "\n" THEN 10
    ELSE IF c = "\f" THEN 12
    ELSE IF c = "\r" THEN 13
    ELSE 31 + (CHOOSE k \in 1..Len(Printable) : Printable[k] = c)

\* a < b in Python's str order.
RECURSIVE StrLess(_, _)
StrLess(a, b) ==
    IF b = <<>> THEN FALSE
    ELSE IF a = <<>> THEN TRUE
    ELSE IF a[1] = b[1] THEN StrLess(Tail(a), Tail(b))
    ELSE Ord(a[1]) < Ord(b[1])

\* sorted(S) for a set of strings.
RECURSIVE Sorted(_)
Sorted(S) ==
    IF S = {} THEN <<>>
    ELSE LET least == CHOOSE a \in S : \A b \in S \ {a} : StrLess(a, b)
         IN  <<least>> \o Sorted(S \ {least})

\* Mutant: extra documented commands are not reported.
CheckerProblems_NoExtra(miss, ext, errors) ==
    (IF miss # <<>>
     THEN <<Chars("Missing in docs/COMMANDS.md: ") \o Join(Chars(", "), miss)>>
     ELSE <<>>)
    \o errors

\* The problems list main builds from its three findings.
CheckerProblems(miss, ext, errors) ==
    (IF miss # <<>>
     THEN <<Chars("Missing in docs/COMMANDS.md: ") \o Join(Chars(", "), miss)>>
     ELSE <<>>)
    \o (IF ext # <<>>
        THEN <<Chars("Extra in docs/COMMANDS.md: ") \o Join(Chars(", "), ext)>>
        ELSE <<>>)
    \o errors

(***************************************************************************)
(* generate-command-docs.py                                                *)
(***************************************************************************)

GROUP_TITLE_MAP ==
    {<<Chars("GETTING STARTED COMMANDS"), Chars("Getting Started")>>,
     <<Chars("ANALYTICS & FINANCE COMMANDS"), Chars("Analytics and Finance")>>,
     <<Chars("APP MANAGEMENT COMMANDS"), Chars("App Management")>>,
     <<Chars("TESTFLIGHT & BUILD COMMANDS"), Chars("TestFlight and Builds")>>,
     <<Chars("REVIEW & RELEASE COMMANDS"), Chars("Review and Release")>>,
     <<Chars("MONETIZATION COMMANDS"), Chars("Monetization")>>,
     <<Chars("SIGNING COMMANDS"), Chars("Signing")>>,
     <<Chars("TEAM & ACCESS COMMANDS"), Chars("Team and Access")>>,
     <<Chars("AUTOMATION COMMANDS"), Chars("Automation")>>,
     <<Chars("UTILITY COMMANDS"), Chars("Utility")>>,
     <<Chars("ADDITIONAL COMMANDS"), Chars("Additional")>>}

UpperLetters == Chars("ABCDEFGHIJKLMNOPQRSTUVWXYZ")

LowerLetters == Chars("abcdefghijklmnopqrstuvwxyz")

IsLetter(c) == c \in Range(UpperLetters) \cup Range(LowerLetters)

\* str.lower() and str.upper() on one character.
LowerChar(c) ==
    IF c \in Range(UpperLetters)
    THEN LowerLetters[CHOOSE k \in 1..Len(UpperLetters) : UpperLetters[k] = c]
    ELSE c

UpperChar(c) ==
    IF c \in Range(LowerLetters)
    THEN UpperLetters[CHOOSE k \in 1..Len(LowerLetters) : LowerLetters[k] = c]
    ELSE c

\* str.title(): a letter that follows a letter is lowercased, any other
\* letter is uppercased.
Title(s) ==
    [k \in 1..Len(s) |->
        IF k > 1 /\ IsLetter(s[k - 1]) THEN LowerChar(s[k]) ELSE UpperChar(s[k])]

\* The regex class [A-Z0-9 &/-].
GroupTitleChars == Range(UpperLetters) \cup Range(Chars("0123456789 &/-"))

\* re.match(r"^([A-Z0-9 &/-]+) COMMANDS$", stripped) matches.
GroupMatch(stripped) ==
    LET suffix == Chars(" COMMANDS")
    IN  /\ Len(stripped) > Len(suffix)
        /\ SubSeq(stripped, Len(stripped) - Len(suffix) + 1, Len(stripped)) = suffix
        /\ Range(SubSeq(stripped, 1, Len(stripped) - Len(suffix))) \subseteq GroupTitleChars

\* re.match(r"^\s{2}([a-z0-9-]+):\s+(.*\S)\s*$", line): <<group(1), group(2)>>,
\* or None.
CommandMatch(line) ==
    IF Len(line) >= 2 /\ IsSpace(line[1]) /\ IsSpace(line[2])
    THEN LET n == RunLength(line, 3, CommandChars)
             rest == Strip(SubSeq(line, n + 4, Len(line)))
         IN  IF /\ n >= 1
                /\ Len(line) >= n + 4
                /\ line[n + 3] = ":"
                /\ IsSpace(line[n + 4])
                /\ rest # <<>>
             THEN <<SubSeq(line, 3, n + 2), rest>>
             ELSE None
    ELSE None

\* re.match(r"^\s{2}(--[a-z0-9-]+)\s+(.*\S)\s*$", line): <<group(1), group(2)>>,
\* or None.
FlagMatch(line) ==
    IF /\ Len(line) >= 4 /\ IsSpace(line[1]) /\ IsSpace(line[2])
       /\ line[3] = "-" /\ line[4] = "-"
    THEN LET n == RunLength(line, 5, CommandChars)
             rest == Strip(SubSeq(line, n + 5, Len(line)))
         IN  IF /\ n >= 1
                /\ Len(line) >= n + 5
                /\ IsSpace(line[n + 5])
                /\ rest # <<>>
             THEN <<SubSeq(line, 3, n + 4), rest>>
             ELSE None
    ELSE None

\* current_group_index when it is None (no group is open).
NoGroup == -1

\* The parse state before the first line.
ParseStart ==
    [usage |-> Chars("asc <subcommand> [flags]"), flags |-> <<>>, groups |-> <<>>,
     in_flags |-> FALSE, current_group_index |-> NoGroup]

\* Mutant: the FLAGS header leaves the current group open.
ParseStep_FlagsKeepsGroup(st, line) ==
    LET stripped == Strip(line)
        st1 == IF StartsWith(line, Chars("  asc "))
               THEN [st EXCEPT !.usage = Strip(line)] ELSE st
    IN  IF stripped = Chars("FLAGS")
        THEN [st1 EXCEPT !.in_flags = TRUE]
        ELSE IF GroupMatch(stripped)
        THEN [st1 EXCEPT !.in_flags = FALSE,
                         !.groups = Append(@, <<stripped, <<>>>>),
                         !.current_group_index = Len(st1.groups)]
        ELSE IF CommandMatch(line) # None /\ st1.current_group_index # NoGroup
        THEN [st1 EXCEPT !.groups[st1.current_group_index + 1][2] =
                             Append(@, CommandMatch(line))]
        ELSE IF FlagMatch(line) # None /\ st1.in_flags
        THEN [st1 EXCEPT !.flags = Append(@, FlagMatch(line))]
        ELSE st1

\* One iteration of the loop of parse_help. current_group_index is Python's
\* 0-based index; groups[current_group_index + 1] is that group here.
ParseStep(st, line) ==
    LET stripped == Strip(line)
        st1 == IF StartsWith(line, Chars("  asc "))
               THEN [st EXCEPT !.usage = Strip(line)] ELSE st
    IN  IF stripped = Chars("FLAGS")
        THEN [st1 EXCEPT !.in_flags = TRUE, !.current_group_index = NoGroup]
        ELSE IF GroupMatch(stripped)
        THEN [st1 EXCEPT !.in_flags = FALSE,
                         !.groups = Append(@, <<stripped, <<>>>>),
                         !.current_group_index = Len(st1.groups)]
        ELSE IF CommandMatch(line) # None /\ st1.current_group_index # NoGroup
        THEN [st1 EXCEPT !.groups[st1.current_group_index + 1][2] =
                             Append(@, CommandMatch(line))]
        ELSE IF FlagMatch(line) # None /\ st1.in_flags
        THEN [st1 EXCEPT !.flags = Append(@, FlagMatch(line))]
        ELSE st1

\* parse_help as one function of the help text: the loop run over all lines.
RECURSIVE ParseLines(_, _, _)
ParseLines(st, lines, from) ==
    IF from > Len(lines) THEN st
    ELSE ParseLines(ParseStep(st, lines[from]), lines, from + 1)

parse_help(text) == ParseLines(ParseStart, SplitLines(text), 1)

normalize_group_title(raw_title) ==
    IF \E p \in GROUP_TITLE_MAP : p[1] = raw_title
    THEN (CHOOSE p \in GROUP_TITLE_MAP : p[1] = raw_title)[2]
    ELSE Title(raw_title)

\* A markdown code fence and an inline code span.
Fence == <<Backtick, Backtick, Backtick>>

Code(s) == <<Backtick>> \o Chars(s) \o <<Backtick>>

\* The f-string "- B{name}B - {description}" of render (B the grave accent).
Bullet(entry) == Chars("- ") \o <<Backtick>> \o entry[1] \o <<Backtick>> \o Chars(" - ") \o entry[2]

RenderHead(usage_line) ==
    <<Chars("# Command Reference Guide"),
      <<>>,
      Chars("This file is generated from live CLI help output."),
      Chars("For authoritative command behavior, also use:"),
      <<>>,
      Fence \o Chars("bash"),
      Chars("asc --help"),
      Chars("asc <command> --help"),
      Chars("asc <command> <subcommand> --help"),
      Fence,
      <<>>,
      Chars("To regenerate:"),
      <<>>,
      Fence \o Chars("bash"),
      Chars("make generate-command-docs"),
      Fence,
      <<>>,
      Chars("## Usage Pattern"),
      <<>>,
      Fence \o Chars("bash"),
      usage_line,
      Fence,
      <<>>,
      Chars("## Global Flags"),
      <<>>>>

RenderGroup(group) ==
    <<Chars("### ") \o normalize_group_title(group[1]), <<>>>>
        \o [k \in 1..Len(group[2]) |-> Bullet(group[2][k])]
        \o <<<<>>>>

RenderTail ==
    <<Chars("## Scripting Tips"),
      <<>>,
      Chars("- JSON output is minified by default and optimized for machine parsing."),
      Chars("- Use ") \o Code("--output table") \o Chars(" or ")
          \o Code("--output markdown") \o Chars(" for human-readable output."),
      Chars("- Use ") \o Code("--paginate")
          \o Chars(" on list commands to fetch all pages automatically."),
      Chars("- Use ") \o Code("--limit") \o Chars(" and ") \o Code("--next")
          \o Chars(" for manual pagination control."),
      Chars("- Prefer explicit flags and deterministic outputs in CI scripts."),
      <<>>,
      Chars("## High-Signal Examples"),
      <<>>,
      Fence \o Chars("bash"),
      Chars("# List apps"),
      Chars("asc apps list --output table"),
      <<>>,
      Chars("# Upload a build"),
      Chars("asc builds upload --app \"123456789\" --file \"/path/to/MyApp.ipa\""),
      <<>>,
      Chars("# Validate and submit an App Store version"),
      Chars("asc validate --app \"123456789\" --version \"1.2.3\""),
      Chars("asc submit --app \"123456789\" --version \"1.2.3\""),
      <<>>,
      Chars("# Run a local automation workflow"),
      Chars("asc workflow run --file .asc/workflow.json --workflow release"),
      Fence,
      <<>>,
      Chars("## Related Documentation"),
      <<>>,
      Chars("- [../README.md](../README.md) - onboarding and common workflows"),
      Chars("- [API_NOTES.md](API_NOTES.md) - API-specific behavior and caveats"),
      Chars("- [TESTING.md](TESTING.md) - test strategy and patterns"),
      Chars("- [CONTRIBUTING.md](CONTRIBUTING.md) - contribution and dev workflow"),
      <<>>>>

\* render(usage, flags, groups), given the parse result.
render(parsed) ==
    Join(Chars("\n"),
         RenderHead(parsed.usage)
             \o [k \in 1..Len(parsed.flags) |-> Bullet(parsed.flags[k])]
             \o <<<<>>, Chars("## Command Families"), <<>>>>
             \o Concat([k \in 1..Len(parsed.groups) |-> RenderGroup(parsed.groups[k])])
             \o RenderTail)

\* Path.write_text(text): every "\n" is stored as os.linesep.
WriteText(text, sep) == File(Join(sep, SplitNewline(text)))

\* OUTPUT_PATH.read_text() if OUTPUT_PATH.exists() else ""
CurrentText(file) == IF file.exists THEN ReadText(file) ELSE <<>>

(***************************************************************************)
(* update-wall-of-apps.py                                                  *)
(***************************************************************************)

START_MARKER == Chars("<!-- WALL-OF-APPS:START -->")

END_MARKER == Chars("<!-- WALL-OF-APPS:END -->")

PLATFORM_DISPLAY_NAMES ==
    <<<<Chars("IOS"), Chars("iOS")>>, <<Chars("MAC_OS"), Chars("macOS")>>,
      <<Chars("TV_OS"), Chars("tvOS")>>, <<Chars("VISION_OS"), Chars("visionOS")>>>>

PLATFORM_ALIASES ==
    {<<Chars("ios"), Chars("IOS")>>,
     <<Chars("macos"), Chars("MAC_OS")>>, <<Chars("mac_os"), Chars("MAC_OS")>>,
     <<Chars("tvos"), Chars("TV_OS")>>, <<Chars("tv_os"), Chars("TV_OS")>>,
     <<Chars("visionos"), Chars("VISION_OS")>>, <<Chars("vision_os"), Chars("VISION_OS")>>}

\* str.lower()
Lower(s) == [k \in 1..Len(s) |-> LowerChar(s[k])]

\* str.replace(old, new) for a one-character old.
ReplaceChar(s, old, new) ==
    Concat([k \in 1..Len(s) |-> IF s[k] = old THEN new ELSE <<s[k]>>])

\* str.find(sub) + 1: the 1-based index of the first occurrence, or 0.
Find(s, sub) ==
    LET at == {k \in 1..(Len(s) - Len(sub) + 1) : SubSeq(s, k, k + Len(sub) - 1) = sub}
    IN  IF at = {} THEN 0 ELSE CHOOSE k \in at : \A m \in at : k <= m

\* sub in s
Contains(s, sub) == Find(s, sub) # 0

\* Mutant: hyphens are dropped instead of being replaced by underscores.
normalize_platform_DropHyphen(value) ==
    LET token == Strip(value)
        key == ReplaceChar(ReplaceChar(Lower(token), "-", <<>>), " ", <<>>)
    IN  IF token = <<>> THEN None
        ELSE IF \E p \in PLATFORM_ALIASES : p[1] = key
             THEN (CHOOSE p \in PLATFORM_ALIASES : p[1] = key)[2]
             ELSE None

\* value is str(value) of the JSON value.
normalize_platform(value) ==
    LET token == Strip(value)
        key == ReplaceChar(ReplaceChar(Lower(token), "-", <<"_">>), " ", <<>>)
    IN  IF token = <<>> THEN None
        ELSE IF \E p \in PLATFORM_ALIASES : p[1] = key
             THEN (CHOOSE p \in PLATFORM_ALIASES : p[1] = key)[2]
             ELSE None

display_platform(value) ==
    IF \E k \in 1..Len(PLATFORM_DISPLAY_NAMES) : PLATFORM_DISPLAY_NAMES[k][1] = value
    THEN PLATFORM_DISPLAY_NAMES[CHOOSE k \in 1..Len(PLATFORM_DISPLAY_NAMES) :
                                   PLATFORM_DISPLAY_NAMES[k][1] = value][2]
    ELSE value

escape_cell(value) ==
    Strip(ReplaceChar(ReplaceChar(value, "|", <<"\\", "|">>), "\n", <<" ">>))

\* urlparse(link).scheme
UrlScheme(link) ==
    LET colon == Find(link, <<":">>)
        schemeChars == Range(UpperLetters) \cup Range(LowerLetters)
                           \cup Range(Chars("0123456789+-."))
    IN  IF /\ colon > 1
           /\ IsLetter(link[1])
           /\ Range(SubSeq(link, 1, colon - 1)) \subseteq schemeChars
        THEN Lower(SubSeq(link, 1, colon - 1))
        ELSE <<>>

\* urlparse(link).netloc
UrlNetloc(link) ==
    LET rest == IF UrlScheme(link) = <<>> THEN link
                ELSE SubSeq(link, Find(link, <<":">>) + 1, Len(link))
    IN  IF StartsWith(rest, Chars("//"))
        THEN SubSeq(rest, 3, 2 + RunLength(rest, 3, Range(rest) \ {"/", "?", "#"}))
        ELSE <<>>

\* repr(token) of a string without quotes, backslashes or control characters.
Repr(token) == Chars("'") \o token \o Chars("'")

\* A raised SystemExit(message), and a returned value.
Fatal(message) == [ok |-> FALSE, error |-> message, value |-> <<>>]

Return(value) == [ok |-> TRUE, error |-> <<>>, value |-> value]

\* The for loop of normalize_entry over platforms_raw[from..], platforms being
\* the list built so far.
RECURSIVE NormalizePlatforms(_, _, _, _)
NormalizePlatforms(raw, from, platforms, index) ==
    IF from > Len(raw) THEN Return(platforms)
    ELSE LET token == Strip(raw[from])
             platform == normalize_platform(raw[from])
         IN  IF platform = None
             THEN Fatal(Chars("Entry #") \o Str(index) \o Chars(": invalid platform ")
                            \o Repr(token)
                            \o Chars(" (allowed: iOS, macOS, tvOS, visionOS)"))
             ELSE NormalizePlatforms(raw, from + 1,
                      IF platform \in Range(platforms) THEN platforms
                      ELSE Append(platforms, platform),
                      index)

\* entry is a JSON item: is_dict says whether it is an object; app, link and
\* creator are str(entry.get(key, "")); platform is entry.get("platform"),
\* is_list saying whether it is a list and values holding str() of its items.
normalize_entry(entry, index) ==
    LET app == Strip(entry.app)
        link == Strip(entry.link)
        creator == Strip(entry.creator)
        platforms_raw == entry.platform
        prefix == Chars("Entry #") \o Str(index)
    IN  IF ~entry.is_dict THEN Fatal(prefix \o Chars(": expected object"))
        ELSE IF app = <<>> THEN Fatal(prefix \o Chars(": 'app' is required"))
        ELSE IF link = <<>> THEN Fatal(prefix \o Chars(": 'link' is required"))
        ELSE IF creator = <<>> THEN Fatal(prefix \o Chars(": 'creator' is required"))
        ELSE IF UrlScheme(link) \notin {Chars("http"), Chars("https")} \/ UrlNetloc(link) = <<>>
        THEN Fatal(prefix \o Chars(": 'link' must be a valid http/https URL"))
        ELSE IF ~platforms_raw.is_list \/ Len(platforms_raw.values) = 0
        THEN Fatal(prefix \o Chars(": 'platform' must be a non-empty array"))
        ELSE LET platforms == NormalizePlatforms(platforms_raw.values, 1, <<>>, index)
             IN  IF ~platforms.ok THEN platforms
                 ELSE Return([app |-> app, link |-> link, creator |-> creator,
                              platform |-> platforms.value])

\* The sort key (entry["app"].lower(), entry["link"].lower()) of a is less
\* than that of b.
KeyLess(a, b) ==
    \/ StrLess(Lower(a.app), Lower(b.app))
    \/ Lower(a.app) = Lower(b.app) /\ StrLess(Lower(a.link), Lower(b.link))

\* list.sort(key=...): stable, ascending.
RECURSIVE SortEntries(_)
SortEntries(list) ==
    IF list = <<>> THEN <<>>
    ELSE LET first == CHOOSE k \in 1..Len(list) :
                          /\ \A m \in 1..Len(list) : ~KeyLess(list[m], list[k])
                          /\ \A m \in 1..(k - 1) : KeyLess(list[k], list[m])
                                                        \/ KeyLess(list[m], list[k])
         IN  <<list[first]>>
                 \o SortEntries(SubSeq(list, 1, first - 1) \o SubSeq(list, first + 1, Len(list)))

\* The list comprehension of read_entries over parsed[from..]: the first
\* entry that fails raises.
RECURSIVE NormalizeAll(_, _)
NormalizeAll(parsed, from) ==
    IF from > Len(parsed) THEN Return(<<>>)
    ELSE LET one == normalize_entry(parsed[from], from)
             rest == NormalizeAll(parsed, from + 1)
         IN  IF ~one.ok THEN one
             ELSE IF ~rest.ok THEN rest
             ELSE Return(<<one.value>> \o rest.value)

\* The path the messages name.
SourcePath == Chars("docs/wall-of-apps.json")

\* Mutant: a JSON value that is no list is taken for an empty list.
read_entries_NoArrayCheck(source) ==
    IF ~source.exists THEN Fatal(Chars("Missing source file: ") \o SourcePath)
    ELSE IF source.blank THEN Fatal(Chars("Source file is empty: ") \o SourcePath)
    ELSE IF source.json = "invalid" THEN Fatal(Chars("Invalid JSON in ") \o SourcePath)
    ELSE LET normalized == NormalizeAll(source.items, 1)
         IN  IF ~normalized.ok THEN normalized
             ELSE Return(SortEntries(normalized.value))

\* source is docs/wall-of-apps.json: exists; blank says the text is empty
\* after strip(); json is what json.loads makes of it: "invalid" (it raises
\* JSONDecodeError), "other" (a value that is no list) or "list" with items.
read_entries(source) ==
    IF ~source.exists THEN Fatal(Chars("Missing source file: ") \o SourcePath)
    ELSE IF source.blank THEN Fatal(Chars("Source file is empty: ") \o SourcePath)
    ELSE IF source.json = "invalid" THEN Fatal(Chars("Invalid JSON in ") \o SourcePath)
    ELSE IF source.json # "list"
    THEN Fatal(Chars("Expected a JSON array in ") \o SourcePath)
    ELSE LET normalized == NormalizeAll(source.items, 1)
         IN  IF ~normalized.ok THEN normalized
             ELSE Return(SortEntries(normalized.value))

\* One table row of build_snippet.
SnippetRow(entry) ==
    Chars("| ") \o escape_cell(entry.app)
        \o Chars(" | [Open](") \o entry.link \o Chars(") | ")
        \o escape_cell(entry.creator) \o Chars(" | ")
        \o escape_cell(Join(Chars(", "),
                [k \in 1..Len(entry.platform) |-> display_platform(entry.platform[k])]))
        \o Chars(" |")

build_snippet(list) ==
    Join(Chars("\n"),
         <<Chars("## Wall of Apps"),
           <<>>,
           Chars("Apps shipping with asc-cli. [Add yours via PR](https://github.com/rudrankriyam/App-Store-Connect-CLI/pulls)!"),
           <<>>,
           Chars("| App | Link | Creator | Platform |"),
           Chars("|:----|:-----|:--------|:---------|")>>
             \o [k \in 1..Len(list) |-> SnippetRow(list[k])])
        \o Chars("\n")

\* The file write_generated_doc stores.
write_generated_doc(text, sep) ==
    WriteText(Chars("<!-- Generated from docs/wall-of-apps.json by scripts/update-wall-of-apps.py. -->\n\n")
                  \o text, sep)

\* sync_readme(snippet, readme_path): the outcome ("ok", "fatal" for a raised
\* SystemExit, "crash" for an uncaught exception), its message, and the
\* README afterwards.
sync_readme(text, file, sep) ==
    IF ~file.exists
    THEN [outcome |-> "fatal", file |-> file,
          message |-> Chars("Missing README file: README.md")]
    ELSE LET content == ReadText(file)
         IN  IF ~Contains(content, START_MARKER) \/ ~Contains(content, END_MARKER)
             THEN [outcome |-> "fatal", file |-> file,
                   message |-> Chars("README markers not found. Expected WALL-OF-APPS markers in README.md.")]
             ELSE LET s0 == Find(content, START_MARKER)
                      before == SubSeq(content, 1, s0 - 1)
                      remainder == SubSeq(content, s0 + Len(START_MARKER), Len(content))
                      e0 == Find(remainder, END_MARKER)
                      after == SubSeq(remainder, e0 + Len(END_MARKER), Len(remainder))
                  IN  IF e0 = 0
                      THEN [outcome |-> "crash", file |-> file,
                            message |-> Chars("ValueError: not enough values to unpack (expected 2, got 1)")]
                      ELSE [outcome |-> "ok", message |-> <<>>,
                            file |-> WriteText(before \o START_MARKER \o Chars("\n") \o text
                                                   \o END_MARKER \o after, sep)]

(***************************************************************************)
(* Inputs of the checker                                                   *)
(***************************************************************************)

\* Subsets of S with at most n elements.
SubsetsUpTo(S, n) == {T \in SUBSET S : Cardinality(T) <= n}

\* The members of the set T in the order they have in the sequence order.
RECURSIVE Pick(_, _)
Pick(order, T) ==
    IF order = <<>> THEN <<>>
    ELSE (IF Head(order) \in T THEN <<Head(order)>> ELSE <<>>) \o Pick(Tail(order), T)

MaxLiveLines == 2

LiveIndents == {<<>>, Chars(" "), Chars("  "), Chars("   "), Chars("\t\t"), Chars(" \t")}

LiveTokens == {Chars("apps"), Chars("b-2"), Chars("Apps")}

LiveSeparators == {Chars(": "), Chars(":"), Chars(":\t"), Chars(" - ")}

LiveLines ==
    {ind \o tok \o sep \o Chars("x") :
        ind \in LiveIndents, tok \in LiveTokens, sep \in LiveSeparators}

MaxArgs == 3

ExampleTokens ==
    {Chars("--profile"), Chars("--report-file"), Chars("--verbose"),
     Chars("--profile=work"), Chars("apps"), Chars("<command>"),
     Chars("work"), Chars("-v")}

ExampleLines ==
    {lead \o Join(Chars(" "), <<first>> \o args) :
        lead \in {<<>>, Chars("  ")},
        first \in {Chars("asc"), Chars("sudo")},
        args \in SeqsUpTo(ExampleTokens, MaxArgs)}

MaxHelpLines == 3

MaxDocLines == 2

MaxReadmeLines == 2

HelpLineOrder ==
    <<Chars("GETTING STARTED COMMANDS"), Chars("  apps: List apps"),
      Chars("  builds: Manage builds"), Chars("  submit: Submit a version")>>

DocLineOrder ==
    <<Chars("- ") \o <<Backtick>> \o Chars("--profile") \o <<Backtick>> \o Chars(" - Use profile"),
      Chars("- ") \o <<Backtick>> \o Chars("apps") \o <<Backtick>> \o Chars(" - List apps"),
      Chars("- ") \o <<Backtick>> \o Chars("builds") \o <<Backtick>> \o Chars(" - Manage builds"),
      Chars("- ") \o <<Backtick>> \o Chars("legacy") \o <<Backtick>> \o Chars(" - Old command")>>

ReadmeLineOrder ==
    <<Chars("Install the CLI first."), Chars("asc --profile work apps list"),
      Chars("  asc bogus run"), Chars("asc <command> --help")>>

\* The text whose lines are the members of T, in the given order.
TextOf(order, T) == Concat([k \in 1..Len(Pick(order, T)) |-> Pick(order, T)[k] \o Chars("\n")])

(***************************************************************************)
(* Specifications of the checker                                           *)
(***************************************************************************)

LiveIdle == live_text = <<>> /\ commands = {} /\ live_pc = "idle"

ExtractIdle == ex_line = <<>> /\ ex_result = None /\ ex_pc = "idle"

MainIdle ==
    /\ help_text = <<>> /\ doc_file = File(<<>>) /\ readme_file = File(<<>>)
    /\ live_commands = {} /\ doc_commands = {}
    /\ missing = <<>> /\ extra = <<>> /\ readme_errors = <<>> /\ problems = <<>>
    /\ exit_code = 0 /\ main_pc = "idle"

CheckerIdle == LiveIdle /\ ExtractIdle /\ MainIdle

ParseIdle ==
    /\ parse_text = <<>> /\ help_lines = <<>> /\ line_no = 0
    /\ usage = <<>> /\ flags = <<>> /\ groups = <<>>
    /\ in_flags = FALSE /\ current_group_index = NoGroup /\ parse_pc = "idle"

GenIdle ==
    /\ output_file = File(<<>>) /\ gen_help = <<>>
    /\ gen_check = FALSE /\ gen_exit = 0 /\ gen_pc = "idle"

EntryIdle == entry_in = <<>> /\ entry_out = <<>> /\ entry_pc = "idle"

WallIdle ==
    /\ source_file = NoFile /\ generated_file = NoFile /\ wall_readme = NoFile
    /\ entries = <<>> /\ snippet = <<>>
    /\ wall_pc = "idle" /\ wall_outcome = "none" /\ wall_message = <<>> /\ wall_runs = 0

RendererIdle == EntryIdle /\ WallIdle

GeneratorIdle == ParseIdle /\ GenIdle /\ linesep = <<"\n">> /\ RendererIdle

\* parse_live_commands applied to a help text.
InitLive ==
    /\ live_text \in {Join(Chars("\n"), ls) : ls \in SeqsUpTo(LiveLines, MaxLiveLines)}
    /\ commands = {}
    /\ live_pc = "start"
    /\ ExtractIdle /\ MainIdle /\ GeneratorIdle

ParseLive ==
    /\ live_pc = "start"
    /\ commands' = parse_live_commands(live_text)
    /\ live_pc' = "done"
    /\ UNCHANGED <<live_text, extractVars, mainVars, parseVars, genVars, linesep, entryVars, wallVars>>

SpecLive == InitLive /\ [][ParseLive]_vars

\* extract_top_level_command applied to an example line.
InitExtract ==
    /\ ex_line \in ExampleLines
    /\ ex_result = None
    /\ ex_pc = "start"
    /\ LiveIdle /\ MainIdle /\ GeneratorIdle

Extract ==
    /\ ex_pc = "start"
    /\ ex_result' = extract_top_level_command(ex_line)
    /\ ex_pc' = "done"
    /\ UNCHANGED <<ex_line, liveVars, mainVars, parseVars, genVars, linesep, entryVars, wallVars>>

SpecExtract == InitExtract /\ [][Extract]_vars

\* main of check-commands-docs.py on a help text, docs/COMMANDS.md and README.md.
InitCheck ==
    /\ help_text \in {TextOf(HelpLineOrder, T) :
                          T \in SubsetsUpTo(Range(HelpLineOrder), MaxHelpLines)}
    /\ doc_file \in {File(TextOf(DocLineOrder, T)) :
                          T \in SubsetsUpTo(Range(DocLineOrder), MaxDocLines)}
    /\ readme_file \in {File(TextOf(ReadmeLineOrder, T)) :
                          T \in SubsetsUpTo(Range(ReadmeLineOrder), MaxReadmeLines)}
    /\ live_commands = {} /\ doc_commands = {}
    /\ missing = <<>> /\ extra = <<>> /\ readme_errors = <<>> /\ problems = <<>>
    /\ exit_code = 0 /\ main_pc = "start"
    /\ LiveIdle /\ ExtractIdle /\ GeneratorIdle

CheckMain ==
    /\ main_pc = "start"
    /\ live_commands' = parse_live_commands(help_text)
    /\ doc_commands' = parse_documented_commands(doc_file)
    /\ missing' = Sorted(live_commands' \ doc_commands')
    /\ extra' = Sorted(doc_commands' \ live_commands')
    /\ readme_errors' = validate_readme_examples(readme_file, live_commands')
    /\ problems' = CheckerProblems(missing', extra', readme_errors')
    /\ exit_code' = IF problems' # <<>> THEN 1 ELSE 0
    /\ main_pc' = "done"
    /\ UNCHANGED <<help_text, doc_file, readme_file, liveVars, extractVars,
                   parseVars, genVars, linesep, entryVars, wallVars>>

SpecCheck == InitCheck /\ [][CheckMain]_vars

(***************************************************************************)
(* Specifications of the generator                                         *)
(***************************************************************************)

MaxParseLines == 4

ParseLineChoices ==
    {Chars("FLAGS"), Chars("SIGNING COMMANDS"), Chars("  apps: List apps"),
     Chars("  builds: Manage builds"), Chars("  --profile  Use profile"),
     Chars("  asc <subcommand> [flags]")}

\* parse_help stepping through the lines of a help text.
InitParse ==
    /\ parse_text \in {Concat([k \in 1..Len(ls) |-> ls[k] \o Chars("\n")]) :
                           ls \in SeqsUpTo(ParseLineChoices, MaxParseLines)}
    /\ help_lines = <<>> /\ line_no = 0
    /\ usage = <<>> /\ flags = <<>> /\ groups = <<>>
    /\ in_flags = FALSE /\ current_group_index = NoGroup
    /\ parse_pc = "start"
    /\ CheckerIdle /\ GenIdle /\ linesep = <<"\n">> /\ RendererIdle

ParseState ==
    [usage |-> usage, flags |-> flags, groups |-> groups,
     in_flags |-> in_flags, current_group_index |-> current_group_index]

SetParseState(st) ==
    /\ usage' = st.usage
    /\ flags' = st.flags
    /\ groups' = st.groups
    /\ in_flags' = st.in_flags
    /\ current_group_index' = st.current_group_index

\* Entry of parse_help: the locals are initialised and the text split.
ParseBegin ==
    /\ parse_pc = "start"
    /\ help_lines' = SplitLines(parse_text)
    /\ line_no' = 0
    /\ SetParseState(ParseStart)
    /\ parse_pc' = "loop"
    /\ UNCHANGED <<parse_text, checkerVars, genVars, linesep, entryVars, wallVars>>

\* One iteration of the for loop.
ParseHelpLine ==
    /\ parse_pc = "loop"
    /\ line_no < Len(help_lines)
    /\ SetParseState(ParseStep(ParseState, help_lines[line_no + 1]))
    /\ line_no' = line_no + 1
    /\ UNCHANGED <<parse_text, help_lines, parse_pc, checkerVars, genVars, linesep, entryVars, wallVars>>

\* The loop is exhausted: return usage, flags, groups.
ParseReturn ==
    /\ parse_pc = "loop"
    /\ line_no = Len(help_lines)
    /\ parse_pc' = "done"
    /\ UNCHANGED <<parse_text, help_lines, line_no, usage, flags, groups,
                   in_flags, current_group_index, checkerVars, genVars, linesep, entryVars, wallVars>>

NextParse == ParseBegin \/ ParseHelpLine \/ ParseReturn

SpecParse == InitParse /\ [][NextParse]_vars

MaxGenLines == 2

GenLineOrder ==
    <<Chars("  asc <subcommand> [flags]"),
      Chars("FLAGS"), Chars("  --profile  Use profile"),
      Chars("BETA 2 COMMANDS"), Chars("  apps: List apps")>>

GenHelps ==
    {TextOf(GenLineOrder, T) : T \in SubsetsUpTo(Range(GenLineOrder), MaxGenLines)}

\* docs/COMMANDS.md before the first run: absent, empty, or a document
\* rendered earlier, stored with either line ending or cut short.
GenFiles ==
    {NoFile, File(<<>>)}
    \cup {WriteText(render(parse_help(h)), sep) :
            h \in GenHelps, sep \in {<<"\n">>, <<"\r", "\n">>}}
    \cup {File(SubSeq(render(parse_help(h)), 1, Len(render(parse_help(h))) - 1)) :
            h \in GenHelps}

InitGen ==
    /\ linesep \in {<<"\n">>, <<"\r", "\n">>}
    /\ output_file \in GenFiles
    /\ gen_help = <<>> /\ gen_check = FALSE /\ gen_exit = 0
    /\ gen_pc = "start"
    /\ CheckerIdle /\ ParseIdle /\ RendererIdle

\* One run of main of generate-command-docs.py: run_help_text() returns
\* help, args.check is check.
GenMain(help, check) ==
    LET generated == render(parse_help(help))
    IN  /\ gen_help' = help
        /\ gen_check' = check
        /\ gen_pc' = "done"
        /\ IF check
           THEN /\ gen_exit' = (IF CurrentText(output_file) # generated THEN 1 ELSE 0)
                /\ UNCHANGED output_file
           ELSE /\ output_file' = WriteText(generated, linesep)
                /\ gen_exit' = 0
        /\ UNCHANGED <<linesep, checkerVars, parseVars, entryVars, wallVars>>

NextGen == \E help \in GenHelps, check \in BOOLEAN : GenMain(help, check)

SpecGen == InitGen /\ [][NextGen]_vars

(***************************************************************************)
(* Specifications of the renderer                                          *)
(***************************************************************************)

\* A JSON object with the given fields and a list under "platform".
Item(app, link, creator, platform) ==
    [is_dict |-> TRUE, app |-> Chars(app), link |-> Chars(link),
     creator |-> Chars(creator), platform |-> [is_list |-> TRUE, values |-> platform]]

MaxPlatforms == 2

PlatformTokens ==
    {Chars("ios"), Chars("IOS"), Chars("mac-os"), Chars("Mac OS"), Chars("i-os"),
     Chars("tv_os"), Chars(" visionos "), Chars("android"), <<>>}

\* Entries whose other fields are valid, with every platform array and with
\* a "platform" that is no array; and entries with a valid platform array
\* that are no object or have an invalid app, link or creator.
EntryInputs ==
    {Item("Focus", "https://example.com/app", "Ada", tokens) :
        tokens \in SeqsUpTo(PlatformTokens, MaxPlatforms)}
    \cup {[Item("Focus", "https://example.com/app", "Ada", <<>>)
             EXCEPT !.platform.is_list = FALSE]}
    \cup {[Item("Focus", "https://example.com/app", "Ada", <<Chars("ios")>>)
             EXCEPT !.is_dict = FALSE],
          Item("  ", "https://example.com/app", "Ada", <<Chars("ios")>>),
          Item("Focus", "", "Ada", <<Chars("ios")>>),
          Item("Focus", "ftp://example.com/app", "Ada", <<Chars("ios")>>),
          Item("Focus", "https://example.com/app", "", <<Chars("ios")>>)}

\* normalize_entry applied to one entry.
InitEntry ==
    /\ entry_in \in EntryInputs
    /\ entry_out = <<>>
    /\ entry_pc = "start"
    /\ CheckerIdle /\ ParseIdle /\ GenIdle /\ linesep = <<"\n">> /\ WallIdle

NormalizeEntry ==
    /\ entry_pc = "start"
    /\ entry_out' = normalize_entry(entry_in, 1)
    /\ entry_pc' = "done"
    /\ UNCHANGED <<entry_in, checkerVars, parseVars, genVars, linesep, wallVars>>

SpecEntry == InitEntry /\ [][NormalizeEntry]_vars

MaxEntries == 2

MaxWallRuns == 2

WallItems ==
    {Item("B", "https://x", "Y", <<Chars("ios")>>),
     Item("A", "https://x", "Y", <<Chars("IOS")>>),
     [Item("Pipe|d", "https://x", "Z", <<Chars("mac-os"), Chars("tvos")>>)
         EXCEPT !.app = Chars("x ") \o END_MARKER],
     Item("C", "https://x", "Y", <<Chars("android")>>),
     [Item("", "", "", <<>>) EXCEPT !.is_dict = FALSE]}

\* docs/wall-of-apps.json: absent, blank, not JSON, JSON that is no array, or
\* an array of at most MaxEntries items.
WallSources ==
    {[exists |-> FALSE, blank |-> TRUE, json |-> "invalid", items |-> <<>>],
     [exists |-> TRUE, blank |-> TRUE, json |-> "invalid", items |-> <<>>],
     [exists |-> TRUE, blank |-> FALSE, json |-> "invalid", items |-> <<>>],
     [exists |-> TRUE, blank |-> FALSE, json |-> "other", items |-> <<>>]}
    \cup {[exists |-> TRUE, blank |-> FALSE, json |-> "list", items |-> items] :
            items \in SeqsUpTo(WallItems, MaxEntries)}

WallReadmes ==
    {NoFile,
     File(Chars("# asc\nNo wall here.\n")),
     File(Chars("# asc\n") \o START_MARKER \o Chars("\nold\n") \o END_MARKER \o Chars("\nbye\n")),
     File(Chars("# asc\r\n") \o START_MARKER \o Chars("\r\nold\r\n") \o END_MARKER \o Chars("\r\nbye\r\n")),
     File(END_MARKER \o Chars("\n") \o START_MARKER \o Chars("\nold\n")),
     File(Chars("# asc\n") \o START_MARKER \o Chars("\nold\n")),
     File(START_MARKER \o END_MARKER \o Chars("mid") \o END_MARKER \o Chars("\n"))}

InitWall ==
    /\ linesep \in {<<"\n">>, <<"\r", "\n">>}
    /\ source_file \in WallSources
    /\ wall_readme \in WallReadmes
    /\ generated_file = NoFile
    /\ entries = <<>> /\ snippet = <<>>
    /\ wall_pc = "start" /\ wall_outcome = "none" /\ wall_message = <<>> /\ wall_runs = 0
    /\ CheckerIdle /\ ParseIdle /\ GenIdle /\ EntryIdle

\* main: entries = read_entries(source_path); snippet = build_snippet(entries)
WallReadEntries ==
    /\ wall_pc = "start"
    /\ LET read == read_entries(source_file)
       IN  IF read.ok
           THEN /\ entries' = read.value
                /\ snippet' = build_snippet(read.value)
                /\ wall_pc' = "write"
                /\ UNCHANGED <<wall_outcome, wall_message, wall_runs>>
           ELSE /\ wall_pc' = "exited"
                /\ wall_outcome' = "fatal"
                /\ wall_message' = read.error
                /\ wall_runs' = wall_runs + 1
                /\ UNCHANGED <<entries, snippet>>
    /\ UNCHANGED <<source_file, generated_file, wall_readme, linesep,
                   checkerVars, parseVars, genVars, entryVars>>

\* main: write_generated_doc(snippet, generated_path)
WallWriteGenerated ==
    /\ wall_pc = "write"
    /\ generated_file' = write_generated_doc(snippet, linesep)
    /\ wall_pc' = "sync"
    /\ UNCHANGED <<source_file, wall_readme, entries, snippet, wall_outcome,
                   wall_message, wall_runs, linesep,
                   checkerVars, parseVars, genVars, entryVars>>

\* main: sync_readme(snippet, readme_path), then the two prints.
WallSyncReadme ==
    /\ wall_pc = "sync"
    /\ LET sync == sync_readme(snippet, wall_readme, linesep)
       IN  /\ wall_readme' = sync.file
           /\ wall_outcome' = sync.outcome
           /\ wall_message' = sync.message
    /\ wall_pc' = "exited"
    /\ wall_runs' = wall_runs + 1
    /\ UNCHANGED <<source_file, generated_file, entries, snippet, linesep,
                   checkerVars, parseVars, genVars, entryVars>>

\* The script is invoked again on the same files; wall_outcome keeps the
\* outcome of the previous invocation until this one ends.
WallRunAgain ==
    /\ wall_pc = "exited"
    /\ wall_runs < MaxWallRuns
    /\ wall_pc' = "start"
    /\ entries' = <<>> /\ snippet' = <<>>
    /\ UNCHANGED <<source_file, generated_file, wall_readme, wall_outcome,
                   wall_message, wall_runs, linesep,
                   checkerVars, parseVars, genVars, entryVars>>

NextWall == WallReadEntries \/ WallWriteGenerated \/ WallSyncReadme \/ WallRunAgain

SpecWall == InitWall /\ [][NextWall]_vars

(***************************************************************************)
(* Claims about the checker                                                *)
(***************************************************************************)

\* C1: main exits 1 exactly when live minus documented, documented minus
\* live, or the list of README example errors is non-empty, and exits 0
\* otherwise; the reported missing commands are exactly live minus documented
\* and the reported extra commands exactly documented minus live, each listed
\* once.
C1_ExitOneIffDrift ==
    main_pc = "done" =>
        LET L == live_commands
            D == doc_commands
            drift == (L \ D # {}) \/ (D \ L # {}) \/ (readme_errors # <<>>)
        IN  /\ exit_code = (IF drift THEN 1 ELSE 0)
            /\ Range(missing) = L \ D /\ Len(missing) = Cardinality(L \ D)
            /\ Range(extra) = D \ L /\ Len(extra) = Cardinality(D \ L)
            /\ (L \ D # {}) =>
                   problems[1] = Chars("Missing in docs/COMMANDS.md: ")
                                     \o Join(Chars(", "), missing)
            /\ (D \ L # {}) =>
                   \E k \in 1..Len(problems) :
                       problems[k] = Chars("Extra in docs/COMMANDS.md: ")
                                         \o Join(Chars(", "), extra)

\* C1 witness: documented {apps, builds} against live {apps, builds, submit}
\* reports missing = submit, extra = nothing, and exits 1.
C1_Witness ==
    /\ main_pc = "done"
    /\ doc_commands = {Chars("apps"), Chars("builds")}
    /\ live_commands = {Chars("apps"), Chars("builds"), Chars("submit")}
    /\ missing = <<Chars("submit")>>
    /\ extra = <<>>
    /\ exit_code = 1

\* The tokens t for which some line of text is exactly two spaces, t, a
\* colon, a space, and any rest.
ExactFormTokens(text) ==
    {t \in UNION {{SubSeq(l, 3, k) : k \in 3..Len(l)} : l \in Range(SplitLines(text))} :
        /\ Range(t) \subseteq CommandChars
        /\ \E l \in Range(SplitLines(text)) :
               StartsWith(l, Chars("  ") \o t \o Chars(": "))}

\* C2: parse_live_commands returns exactly the tokens of the lines of the
\* form two spaces, token of lowercase letters/digits/hyphens, colon, space,
\* rest; a token that occurs only with other indentation (tabs included) or
\* another separator is not in the result.
C2_ExactlyTwoSpaceLines ==
    live_pc = "done" => commands = ExactFormTokens(live_text)

\* What the claim says a leading flag consumes.
ClaimedFlagWidth(token) ==
    IF "=" \in Range(token) THEN 1
    ELSE IF token \in {Chars("--profile"), Chars("--report"), Chars("--report-file")}
         THEN 2
         ELSE 1

\* The tokens left after the leading flags are skipped under that rule.
RECURSIVE AfterLeadingFlags(_)
AfterLeadingFlags(tokens) ==
    IF tokens # <<>> /\ StartsWith(tokens[1], Chars("--"))
    THEN AfterLeadingFlags(SubSeq(tokens, ClaimedFlagWidth(tokens[1]) + 1, Len(tokens)))
    ELSE tokens

\* C3: for a line whose first token is asc, extract_top_level_command returns
\* the first token left after skipping the leading -- flags (a flag with =
\* consumes itself, a value-taking root flag itself and the next token, any
\* other flag itself), or None when nothing is left or that token starts with
\* <; the returned command never starts with -- or <.
C3_FirstTokenAfterFlags ==
    (ex_pc = "done" /\ Split(ex_line) # <<>> /\ Head(Split(ex_line)) = Chars("asc")) =>
        LET left == AfterLeadingFlags(Tail(Split(ex_line)))
        IN  /\ ex_result = (IF left = <<>> THEN None
                            ELSE IF StartsWith(left[1], Chars("<")) THEN None
                            ELSE left[1])
            /\ ex_result # None =>
                   /\ ~StartsWith(ex_result, Chars("--"))
                   /\ ~StartsWith(ex_result, Chars("<"))

\* C3 witness: the value-taking flag --profile consumed its operand.
C3_Witness ==
    /\ ex_pc = "done"
    /\ ex_line = Chars("asc --profile work apps")
    /\ ex_result = Chars("apps")

(***************************************************************************)
(* Claims about the generator                                              *)
(***************************************************************************)

\* The section header a line is: "FLAGS", "GROUP" or "NONE".
HeaderKind(line) ==
    IF Strip(line) = Chars("FLAGS") THEN "FLAGS"
    ELSE IF GroupMatch(Strip(line)) THEN "GROUP"
    ELSE "NONE"

\* The index of the last header among lines[1..k], or 0.
LastHeader(lines, k) ==
    LET hs == {j \in 1..k : HeaderKind(lines[j]) # "NONE"}
    IN  IF hs = {} THEN 0 ELSE CHOOSE j \in hs : \A m \in hs : j >= m

\* The kind of the header that most recently precedes (or is) line k.
SectionKind(lines, k) ==
    IF LastHeader(lines, k) = 0 THEN "NONE" ELSE HeaderKind(lines[LastHeader(lines, k)])

\* A set of line numbers in increasing order.
RECURSIVE Ascending(_)
Ascending(S) ==
    IF S = {} THEN <<>>
    ELSE LET least == CHOOSE j \in S : \A m \in S : j <= m
         IN  <<least>> \o Ascending(S \ {least})

\* The flag entries of lines[1..k]: the flag lines under a FLAGS header, in
\* line order.
FlagsOfSections(lines, k) ==
    LET at == Ascending({i \in 1..k : /\ HeaderKind(lines[i]) = "NONE"
                                      /\ SectionKind(lines, i) = "FLAGS"
                                      /\ FlagMatch(lines[i]) # None})
    IN  [j \in 1..Len(at) |-> FlagMatch(lines[at[j]])]

\* The groups of lines[1..k]: one per group header, in line order, each with
\* the command lines whose most recent header is that header, in line order.
GroupsOfSections(lines, k) ==
    LET heads == Ascending({i \in 1..k : HeaderKind(lines[i]) = "GROUP"})
    IN  [g \in 1..Len(heads) |->
            LET at == Ascending({i \in 1..k : /\ HeaderKind(lines[i]) = "NONE"
                                              /\ LastHeader(lines, i) = heads[g]
                                              /\ CommandMatch(lines[i]) # None})
            IN  <<Strip(lines[heads[g]]), [j \in 1..Len(at) |-> CommandMatch(lines[at[j]])]>>]

\* C9: at every step of parse_help the two modes are mutually exclusive and
\* follow the most recent header; the flag entries are those of lines under a
\* FLAGS header, every command entry sits in the group its most recent
\* header opened, and groups and entries keep the order of their lines.
C9_EntriesFollowLatestHeader ==
    parse_pc \in {"loop", "done"} =>
        /\ ~(in_flags /\ current_group_index # NoGroup)
        /\ in_flags = (SectionKind(help_lines, line_no) = "FLAGS")
        /\ (current_group_index # NoGroup) = (SectionKind(help_lines, line_no) = "GROUP")
        /\ current_group_index # NoGroup => current_group_index = Len(groups) - 1
        /\ flags = FlagsOfSections(help_lines, line_no)
        /\ groups = GroupsOfSections(help_lines, line_no)

\* C9 witness: a flag was recorded under FLAGS, then a command in a group
\* opened after it.
C9_Witness ==
    /\ parse_pc = "done"
    /\ flags = <<<<Chars("--profile"), Chars("Use profile")>>>>
    /\ groups = <<<<Chars("SIGNING COMMANDS"), <<<<Chars("apps"), Chars("List apps")>>>>>>>>
    /\ current_group_index = 0
    /\ ~in_flags

\* The characters stored at the target path, a missing file counting as empty.
StoredContent(file) == IF file.exists THEN file.data ELSE <<>>

\* C4: a check-mode run exits 1 for any target file content that differs
\* from the rendered document in at least one character (a missing file
\* counting as empty), and exits 0 on the document itself.
C4_AnyDifferenceExitsOne ==
    (gen_pc = "done" /\ gen_check) =>
        (gen_exit = 1) = (StoredContent(output_file) # render(parse_help(gen_help)))

(***************************************************************************)
(* Claims about the renderer                                               *)
(***************************************************************************)

\* The first start marker of the stored README and the first end marker
\* after it (1-based positions; 0 when there is none).
FirstStart(data) == Find(data, START_MARKER)

FirstEndAfterStart(data) ==
    LET from == FirstStart(data) + Len(START_MARKER)
        at == {k \in from..(Len(data) - Len(END_MARKER) + 1) :
                  SubSeq(data, k, k + Len(END_MARKER) - 1) = END_MARKER}
    IN  IF FirstStart(data) = 0 \/ at = {} THEN 0
        ELSE CHOOSE k \in at : \A m \in at : k <= m

\* C5: when the README holds a start marker and an end marker after it, the
\* sync step rewrites only the region between the first start marker and
\* the first end marker after it: the stored text before, both markers and
\* the stored text after are byte-for-byte the same, and the region becomes
\* a newline followed by the snippet.
C5_OnlyMarkedRegionChanges ==
    [][(wall_pc = "sync" /\ wall_readme.exists
            /\ FirstEndAfterStart(wall_readme.data) # 0) =>
        LET data == wall_readme.data
            before == SubSeq(data, 1, FirstStart(data) - 1)
            after == SubSeq(data, FirstEndAfterStart(data) + Len(END_MARKER), Len(data))
        IN  wall_readme'.data =
                before \o START_MARKER
                    \o WriteText(Chars("\n") \o snippet, linesep).data
                    \o END_MARKER \o after]_vars

\* C6: once a run has synced the README, a second run with the same snippet
\* that syncs it again leaves the README byte-for-byte as the first run
\* left it.
C6_SecondSyncChangesNothing ==
    [][(wall_pc = "sync" /\ wall_outcome = "ok" /\ wall_outcome' = "ok") =>
        wall_readme' = wall_readme]_vars

\* The README cases the claim lists: missing, a marker missing, or no end
\* marker after the first start marker.
ReadmeUnusable(file) ==
    \/ ~file.exists
    \/ ~Contains(file.data, START_MARKER)
    \/ ~Contains(file.data, END_MARKER)
    \/ FirstEndAfterStart(file.data) = 0

\* C7: on a missing README, a README lacking a marker, or one with no end
\* marker after the first start marker, sync_readme ends in the fatal-error
\* outcome with a message and leaves the README unchanged.
C7_UnusableReadmeIsFatal ==
    [][(wall_pc = "sync" /\ ReadmeUnusable(wall_readme)) =>
        /\ wall_outcome' = "fatal"
        /\ wall_message' # <<>>
        /\ wall_readme' = wall_readme]_vars

\* The alias keys and canonical codes of the fixed table.
AliasKeys == {p[1] : p \in PLATFORM_ALIASES}

CanonicalCodes == {Chars("IOS"), Chars("MAC_OS"), Chars("TV_OS"), Chars("VISION_OS")}

\* A token with case, hyphens and spaces ignored.
IgnoringHyphensAndSpaces(token) ==
    LET low == Lower(token)
        at == Ascending({k \in 1..Len(low) : low[k] \notin {"-", " "}})
    IN  [j \in 1..Len(at) |-> low[at[j]]]

\* A token trimmed, lowercased, each hyphen made an underscore, spaces deleted.
HyphenAsUnderscore(token) ==
    LET low == Lower(Strip(token))
        at == Ascending({k \in 1..Len(low) : low[k] # " "})
    IN  [j \in 1..Len(at) |-> IF low[at[j]] = "-" THEN "_" ELSE low[at[j]]]

\* The code the alias table gives a key.
CodeOf(key) == (CHOOSE p \in PLATFORM_ALIASES : p[1] = key)[2]

\* The elements of seq in order of first occurrence.
FirstOccurrences(seq) ==
    LET at == Ascending({k \in 1..Len(seq) : \A m \in 1..(k - 1) : seq[m] # seq[k]})
    IN  [j \in 1..Len(at) |-> seq[at[j]]]

\* The entry is an object whose app, link and creator pass their checks.
OtherFieldsValid(entry) ==
    /\ entry.is_dict
    /\ Strip(entry.app) # <<>> /\ Strip(entry.link) # <<>> /\ Strip(entry.creator) # <<>>
    /\ UrlScheme(Strip(entry.link)) \in {Chars("http"), Chars("https")}
    /\ UrlNetloc(Strip(entry.link)) # <<>>

\* C8 as stated: the platform array is accepted exactly when it is non-empty
\* and every token, case, hyphens and spaces ignored, names an alias.
C8_AcceptedIgnoringHyphens ==
    (entry_pc = "done" /\ OtherFieldsValid(entry_in) /\ entry_in.platform.is_list) =>
        LET raw == entry_in.platform.values
        IN  entry_out.ok =
                (/\ raw # <<>>
                 /\ \A k \in 1..Len(raw) : IgnoringHyphensAndSpaces(raw[k]) \in AliasKeys)

\* C8 amended: in an entry whose other fields are valid, the platform array
\* is accepted exactly when it is non-empty
\* and every token, trimmed, lowercased, each hyphen replaced by an
\* underscore and spaces deleted, is a key of the alias table; the resulting
\* list is then non-empty, holds only canonical codes, none twice, in order
\* of first occurrence; otherwise the entry fails with a fatal error.
C8_AcceptedHyphenAsUnderscore ==
    (entry_pc = "done" /\ OtherFieldsValid(entry_in) /\ entry_in.platform.is_list) =>
        LET raw == entry_in.platform.values
            codes == [k \in 1..Len(raw) |-> CodeOf(HyphenAsUnderscore(raw[k]))]
        IN  /\ entry_out.ok =
                   (/\ raw # <<>>
                    /\ \A k \in 1..Len(raw) : HyphenAsUnderscore(raw[k]) \in AliasKeys)
            /\ entry_out.ok =>
                   /\ entry_out.value.platform # <<>>
                   /\ Range(entry_out.value.platform) \subseteq CanonicalCodes
                   /\ \A i, j \in 1..Len(entry_out.value.platform) :
                          i # j => entry_out.value.platform[i] # entry_out.value.platform[j]
                   /\ entry_out.value.platform = FirstOccurrences(codes)
            /\ ~entry_out.ok => entry_out.error # <<>>

\* C8 witness: a hyphenated alias and a repeated code were normalized.
C8_Witness ==
    /\ entry_pc = "done"
    /\ entry_in.platform.values = <<Chars("mac-os"), Chars("Mac OS")>>
    /\ entry_out.ok
    /\ entry_out.value.platform = <<Chars("MAC_OS")>>

\* The source is missing, empty, invalid JSON, no array, or holds an entry
\* that normalize_entry refuses.
SourceInvalid(source) ==
    \/ ~source.exists
    \/ source.blank
    \/ source.json # "list"
    \/ \E k \in 1..Len(source.items) : ~normalize_entry(source.items[k], k).ok

\* C10: a run whose source is missing, empty, invalid, no array or holds an
\* invalid entry ends in a fatal error with neither file written; the
\* README changes only in the final sync step of a run that succeeds, so a
\* run that ends in an error leaves it unchanged; and when the sync step
\* starts the fragment file already holds the new snippet, also in runs the
\* README then fails.
C10_WriteOrder ==
    [][/\ (wall_pc = "start" /\ SourceInvalid(source_file)) =>
              /\ wall_pc' = "exited" /\ wall_outcome' = "fatal"
              /\ generated_file' = generated_file /\ wall_readme' = wall_readme
       /\ (wall_readme' # wall_readme) =>
              wall_pc = "sync" /\ wall_pc' = "exited" /\ wall_outcome' = "ok"
       /\ (generated_file' # generated_file) => wall_pc = "write"
       /\ (wall_pc' = "exited" /\ wall_pc # "exited" /\ wall_outcome' # "ok") =>
              wall_readme' = wall_readme
       /\ (wall_pc = "sync") =>
              /\ ~SourceInvalid(source_file)
              /\ generated_file = write_generated_doc(snippet, linesep)]_vars

\* C10 witness: a run failed on a README without markers after it had
\* written the fragment file.
C10_Witness ==
    /\ wall_pc = "exited"
    /\ wall_outcome = "fatal"
    /\ wall_message = Chars("README markers not found. Expected WALL-OF-APPS markers in README.md.")
    /\ generated_file.exists
    /\ wall_readme = File(Chars("# asc\nNo wall here.\n"))

====
